---- MODULE Spec2Model ----
(***************************************************************************)
(* Model of the higher order core (src/src/lib.rs): the callable handle    *)
(* Func, the leaf rule of Call, higher order pairing HPair and higher      *)
(* order maps HMap over scalar leaves, fixed arrays of arity 2..6 and Vec. *)
(*                                                                         *)
(* Rust selects an impl by the static type of the receiver, so a run       *)
(* carries the container type `ty` next to the value: a type is the        *)
(* sequence of its container layers from the outside in ("Vec" or          *)
(* "A2".."A6"), the empty sequence being a leaf.  A container value is the *)
(* sequence of its elements and a leaf pair (a, b) is <<a, b>>.            *)
(*                                                                         *)
(* A handle (Func<T, U>, a shared `dyn Fn(T) -> U`) is a table from its    *)
(* arguments to outcomes: ok with a value, or a panic with a payload.      *)
(* An evaluation yields [ok, val, log]: whether it returned, the value     *)
(* (or the panic payload), and the arguments the handle was invoked with,  *)
(* in invocation order.                                                    *)
(***************************************************************************)
EXTENDS Integers, Sequences, FiniteSets, TLC

VARIABLES op, kind, ty, left, right, arg, fn, pc, out, err, log, slots

vars == <<op, kind, ty, left, right, arg, fn, pc, out, err, log, slots>>

\* Longest Vec drawn for a one-layer type, and for a Vec inside a nested type.
MaxLen == 3
MaxNestLen == 2

Scalars == {0, 1}
NoOut == "none"

Min(a, b) == IF a < b THEN a ELSE b

-----------------------------------------------------------------------------
(* Handles *)

Ok(v) == [ok |-> TRUE, val |-> v]
Panic(p) == [ok |-> FALSE, val |-> p]

\* Every handle over the scalars: each argument returns 0 or 1 or panics with
\* payload 1 or 2.
Handles == [Scalars -> {Ok(0), Ok(1), Panic(1), Panic(2)}]

\* Binary handles f : (T, T) -> U over pairs of scalars.
PairHandles ==
    { [p \in Scalars \X Scalars |-> Ok(p[1])],
      [p \in Scalars \X Scalars |-> Ok(p[2])],
      [p \in Scalars \X Scalars |-> Ok((p[1] + p[2]) % 2)],
      [p \in Scalars \X Scalars |-> IF p[1] < p[2] THEN Panic(1) ELSE Ok(p[1])],
      [p \in Scalars \X Scalars |->
          IF p = <<1, 1>> THEN Panic(2) ELSE IF p = <<1, 0>> THEN Panic(1) ELSE Ok(0)] }

-----------------------------------------------------------------------------
(* f64 on the grid of multiples of 2^-56 below 4.0: a value N * 2^-56 is   *)
(* the pair <<N \div 2^28, N % 2^28>>.  A double of that range has 53      *)
(* significant bits, so a result is rounded to nearest, ties to even.      *)

Two28 == 2^28

F64Norm(hi, lo) == <<hi + (lo \div Two28), lo % Two28>>

Quantum(hi) ==
    IF hi >= 2 * Two28 THEN 32
    ELSE IF hi >= Two28 THEN 16
    ELSE IF hi >= Two28 \div 2 THEN 8
    ELSE IF hi >= Two28 \div 4 THEN 4
    ELSE IF hi >= Two28 \div 8 THEN 2
    ELSE 1

\* Rounding toward zero.
F64Chop(x) == <<x[1], x[2] - (x[2] % Quantum(x[1]))>>

F64Round(x) ==
    LET q == Quantum(x[1])
        r == x[2] % q
        down == x[2] - r
    IN  IF 2 * r < q THEN <<x[1], down>>
        ELSE IF 2 * r > q THEN F64Norm(x[1], down + q)
        ELSE IF (down \div q) % 2 = 0 THEN <<x[1], down>>
        ELSE F64Norm(x[1], down + q)

F64Add(a, b) == F64Round(F64Norm(a[1] + b[1], a[2] + b[2]))
\* a - b for a >= b
F64Sub(a, b) == F64Round(F64Norm(a[1] - b[1], a[2] - b[2]))
\* x * 0.5, exact for an even N
F64Half(x) == <<x[1] \div 2, (x[2] + (x[1] % 2) * Two28) \div 2>>
\* x % 1.0, exact
F64Rem1(x) == <<x[1] % Two28, x[2]>>
F64Lt(a, b) == a[1] < b[1] \/ (a[1] = b[1] /\ a[2] < b[2])

\* 0.1 = 0x1.999999999999ap-4, 0.7 = 0x1.6666666666666p-1,
\* 0.8 = 0x1.999999999999ap-1, 0.9 = 0x1.ccccccccccccdp-1
F64One == <<Two28, 0>>
F64Zero == <<0, 0>>
F64_01 == <<26843545, 161061274>>
F64_07 == <<187904819, 53687088>>
F64_08 == <<214748364, 214748368>>
F64_09 == <<241591910, 107374184>>

F64Vals == {F64_01, F64_07, F64_09}

\* The binary handle of the crate documentation.
in_between(p) ==
    LET a == p[1]
        b == IF F64Lt(p[2], a) THEN F64Add(p[2], F64One) ELSE p[2]
    IN  F64Rem1(F64Add(a, F64Half(F64Sub(b, a))))

InBetween == [p \in F64Vals \X F64Vals |-> Ok(in_between(p))]

\* A handle over the pairs of the example operands 1..5.
ExampleSum == [p \in (1..5) \X (1..5) |-> Ok(p[1] + p[2])]

BinaryHandles(k) ==
    IF k = "f64" THEN {InBetween}
    ELSE IF k = "ex" THEN {ExampleSum}
    ELSE PairHandles

-----------------------------------------------------------------------------
(* Types and values *)

Arity(layer) ==
    CASE layer = "A2" -> 2
      [] layer = "A3" -> 3
      [] layer = "A4" -> 4
      [] layer = "A5" -> 5
      [] layer = "A6" -> 6

ArrayLayers == {"A2", "A3", "A4", "A5", "A6"}

FlatTypes == { <<>>, <<"A2">>, <<"A3">>, <<"A4">>, <<"A5">>, <<"A6">>, <<"Vec">> }

NestedTypes ==
    { <<"Vec", "Vec">>, <<"A2", "A2">>, <<"Vec", "A2">>, <<"A2", "Vec">>,
      <<"A3", "A2">>, <<"A2", "A2", "A2">> }

Types == FlatTypes \cup NestedTypes

PairTypes == Types \ { <<"A3", "A2">>, <<"A2", "A2", "A2">> }

LenBound(t) == IF Len(t) <= 1 THEN MaxLen ELSE MaxNestLen

HasNestedVec(t) == Len(t) > 1 /\ \E i \in 1..Len(t) : t[i] = "Vec"

RECURSIVE Values(_, _, _)
Values(t, S, lim) ==
    IF t = <<>> THEN S
    ELSE LET inner == Values(Tail(t), S, lim)
         IN  IF Head(t) = "Vec"
             THEN UNION { [1..n -> inner] : n \in 0..lim }
             ELSE [1..Arity(Head(t)) -> inner]

LeftOperands(t) ==
    IF HasNestedVec(t) THEN Values(t, {0}, LenBound(t))
    ELSE Values(t, Scalars, LenBound(t))

RightOperands(t) ==
    IF HasNestedVec(t) THEN Values(t, {1}, LenBound(t))
    ELSE Values(t, Scalars, LenBound(t))

-----------------------------------------------------------------------------
(* Call *)

\* A call that returns the handle's result changed.
callAdjusts(f, val, lg) ==
    LET r == f[val]
    IN  [ok |-> r.ok, val |-> IF r.ok THEN 1 - r.val ELSE r.val,
         log |-> Append(lg, val)]

\* A call whose handle keeps state between invocations: its result depends on
\* how many invocations came before.
callCounting(f, val, lg) ==
    LET r == f[val]
    IN  [ok |-> r.ok, val |-> IF r.ok THEN r.val + Len(lg) ELSE r.val,
         log |-> Append(lg, val)]

\* impl<T, U> Call<T> for U: fn call(f, val) {f(val)}
call(f, val, lg) ==
    LET r == f[val]
    IN  [ok |-> r.ok, val |-> r.val, log |-> Append(lg, val)]

-----------------------------------------------------------------------------
(* HPair: s is the receiver (left, right), T the element type *)

RECURSIVE hpair(_, _)

\* impl HPair for (f64, f64) ... (isize, isize): fn hpair(self) -> Self {self}
hpairLeaf(s) == s

hpair2(T, s) ==
    LET a == s[1][1]  b == s[1][2]
        c == s[2][1]  d == s[2][2]
    IN  << hpair(T, <<a, c>>), hpair(T, <<b, d>>) >>

hpair3(T, s) ==
    LET a == s[1][1]  b == s[1][2]  c == s[1][3]
        d == s[2][1]  e == s[2][2]  f == s[2][3]
    IN  << hpair(T, <<a, d>>), hpair(T, <<b, e>>), hpair(T, <<c, f>>) >>

hpair4(T, s) ==
    LET a == s[1][1]  b == s[1][2]  c == s[1][3]  d == s[1][4]
        e == s[2][1]  f == s[2][2]  g == s[2][3]  h == s[2][4]
    IN  << hpair(T, <<a, e>>), hpair(T, <<b, f>>), hpair(T, <<c, g>>),
           hpair(T, <<d, h>>) >>

\* Arity 5 with the last two elements of the right operand exchanged.
hpair5Crossed(T, s) ==
    LET a == s[1][1]  b == s[1][2]  c == s[1][3]  d == s[1][4]  e == s[1][5]
        f == s[2][1]  g == s[2][2]  h == s[2][3]  i == s[2][4]  j == s[2][5]
    IN  << hpair(T, <<a, f>>), hpair(T, <<b, g>>), hpair(T, <<c, h>>),
           hpair(T, <<d, j>>), hpair(T, <<e, i>>) >>

hpair5(T, s) ==
    LET a == s[1][1]  b == s[1][2]  c == s[1][3]  d == s[1][4]  e == s[1][5]
        f == s[2][1]  g == s[2][2]  h == s[2][3]  i == s[2][4]  j == s[2][5]
    IN  << hpair(T, <<a, f>>), hpair(T, <<b, g>>), hpair(T, <<c, h>>),
           hpair(T, <<d, i>>), hpair(T, <<e, j>>) >>

hpair6(T, s) ==
    LET a == s[1][1]  b == s[1][2]  c == s[1][3]
        d == s[1][4]  e == s[1][5]  f == s[1][6]
        g == s[2][1]  h == s[2][2]  i == s[2][3]
        j == s[2][4]  k == s[2][5]  l == s[2][6]
    IN  << hpair(T, <<a, g>>), hpair(T, <<b, h>>), hpair(T, <<c, i>>),
           hpair(T, <<d, j>>), hpair(T, <<e, k>>), hpair(T, <<f, l>>) >>

\* Iterator::zip: next() takes one item of a, then one of b, and ends with
\* the first of the two that ends.
RECURSIVE Zip(_, _)
\* A zip that ends only with its left operand, repeating the left item when the
\* right operand has ended.
ZipLeftDriven(a, b) ==
    IF a = <<>> THEN <<>>
    ELSE << <<Head(a), IF b = <<>> THEN Head(a) ELSE Head(b)>> >>
         \o Zip(Tail(a), IF b = <<>> THEN b ELSE Tail(b))

Zip(a, b) ==
    IF a = <<>> \/ b = <<>> THEN <<>>
    ELSE << <<Head(a), Head(b)>> >> \o Zip(Tail(a), Tail(b))

\* a.into_iter().zip(b.into_iter()).map(|n| n.hpair()).collect()
RECURSIVE MapPairs(_, _)
MapPairs(T, z) ==
    IF z = <<>> THEN <<>>
    ELSE <<hpair(T, Head(z))>> \o MapPairs(T, Tail(z))

hpairVec(T, s) ==
    LET a == s[1]
        b == s[2]
    IN  MapPairs(T, Zip(a, b))

hpair(t, s) ==
    IF t = <<>> THEN hpairLeaf(s)
    ELSE CASE Head(t) = "A2" -> hpair2(Tail(t), s)
           [] Head(t) = "A3" -> hpair3(Tail(t), s)
           [] Head(t) = "A4" -> hpair4(Tail(t), s)
           [] Head(t) = "A5" -> hpair5(Tail(t), s)
           [] Head(t) = "A6" -> hpair6(Tail(t), s)
           [] Head(t) = "Vec" -> hpairVec(Tail(t), s)

-----------------------------------------------------------------------------
(* HMap: c is the receiver, T the element type, f the handle *)

RECURSIVE hmap(_, _, _, _)

\* The elements xs mapped one after the other, first to last, each result
\* appended to acc; a panic of the handle unwinds out of the whole expression.
RECURSIVE EvalInOrder(_, _, _, _, _)
\* Each result put in front of the earlier ones.
EvalPrepending(T, xs, f, acc, lg) ==
    IF xs = <<>> THEN [ok |-> TRUE, val |-> acc, log |-> lg]
    ELSE LET r == hmap(T, Head(xs), f, lg)
         IN  IF ~r.ok THEN r
             ELSE EvalInOrder(T, Tail(xs), f, <<r.val>> \o acc, r.log)

\* A panic of the handle caught: the element is left out and the rest mapped.
EvalSkippingPanics(T, xs, f, acc, lg) ==
    IF xs = <<>> THEN [ok |-> TRUE, val |-> acc, log |-> lg]
    ELSE LET r == hmap(T, Head(xs), f, lg)
         IN  IF ~r.ok THEN EvalInOrder(T, Tail(xs), f, acc, r.log)
             ELSE EvalInOrder(T, Tail(xs), f, Append(acc, r.val), r.log)

\* The elements mapped last to first, each result kept at its position.
EvalBackToFront(T, xs, f, acc, lg) ==
    IF xs = <<>> THEN [ok |-> TRUE, val |-> acc, log |-> lg]
    ELSE LET rest == EvalInOrder(T, Tail(xs), f, <<>>, lg)
         IN  IF ~rest.ok THEN rest
             ELSE LET r == hmap(T, Head(xs), f, rest.log)
                  IN  IF ~r.ok THEN r
                      ELSE [ok |-> TRUE, val |-> (acc \o <<r.val>>) \o rest.val,
                            log |-> r.log]

EvalInOrder(T, xs, f, acc, lg) ==
    IF xs = <<>> THEN [ok |-> TRUE, val |-> acc, log |-> lg]
    ELSE LET r == hmap(T, Head(xs), f, lg)
         IN  IF ~r.ok THEN r
             ELSE EvalInOrder(T, Tail(xs), f, Append(acc, r.val), r.log)

\* impl<T, U> HMap<U> for T where U: Call<T>
hmapLeaf(c, f, lg) == call(f, c, lg)

hmap2(T, c, f, lg) ==
    LET a == c[1]  b == c[2]
    IN  EvalInOrder(T, <<a, b>>, f, <<>>, lg)

hmap3(T, c, f, lg) ==
    LET a == c[1]  b == c[2]  cc == c[3]
    IN  EvalInOrder(T, <<a, b, cc>>, f, <<>>, lg)

hmap4(T, c, f, lg) ==
    LET a == c[1]  b == c[2]  cc == c[3]  d == c[4]
    IN  EvalInOrder(T, <<a, b, cc, d>>, f, <<>>, lg)

hmap5(T, c, f, lg) ==
    LET a == c[1]  b == c[2]  cc == c[3]  d == c[4]  e == c[5]
    IN  EvalInOrder(T, <<a, b, cc, d, e>>, f, <<>>, lg)

hmap6(T, c, fx, lg) ==
    LET a == c[1]  b == c[2]  cc == c[3]  d == c[4]  e == c[5]  f == c[6]
    IN  EvalInOrder(T, <<a, b, cc, d, e, f>>, fx, <<>>, lg)

\* The last element of the Vec left unmapped.
hmapVecShort(T, c, f, lg) ==
    EvalInOrder(T, IF c = <<>> THEN c ELSE SubSeq(c, 1, Len(c) - 1), f, <<>>, lg)

\* self.into_iter().map(|n| n.hmap(f)).collect()
hmapVec(T, c, f, lg) == EvalInOrder(T, c, f, <<>>, lg)

hmap(t, c, f, lg) ==
    IF t = <<>> THEN hmapLeaf(c, f, lg)
    ELSE CASE Head(t) = "A2" -> hmap2(Tail(t), c, f, lg)
           [] Head(t) = "A3" -> hmap3(Tail(t), c, f, lg)
           [] Head(t) = "A4" -> hmap4(Tail(t), c, f, lg)
           [] Head(t) = "A5" -> hmap5(Tail(t), c, f, lg)
           [] Head(t) = "A6" -> hmap6(Tail(t), c, f, lg)
           [] Head(t) = "Vec" -> hmapVec(Tail(t), c, f, lg)

-----------------------------------------------------------------------------
(* One run: a call, a map, or a pairing followed by a binary map *)

InitCall ==
    /\ op = "call" /\ kind = "u" /\ ty = <<>>
    /\ arg \in Scalars /\ fn \in Handles
    /\ left = <<>> /\ right = <<>>

InitHMap ==
    /\ op = "hmap" /\ kind = "u"
    /\ ty \in Types
    /\ arg \in Values(ty, Scalars, LenBound(ty))
    /\ fn \in Handles
    /\ left = <<>> /\ right = <<>>

InitHPair ==
    /\ op = "hpair"
    /\ \/ /\ kind = "u"
          /\ ty \in PairTypes
          /\ left \in LeftOperands(ty)
          /\ right \in RightOperands(ty)
       \/ /\ kind = "f64"
          /\ ty = <<"A2">>
          /\ left \in [1..2 -> F64Vals]
          /\ right \in [1..2 -> F64Vals]
       \/ /\ kind = "ex"
          /\ ty = <<"Vec">>
          /\ left = <<1, 2, 3>>
          /\ right = <<4, 5>>
    /\ arg = <<>> /\ fn = <<>>

Init ==
    /\ pc = "ready" /\ out = NoOut /\ err = 0 /\ log = <<>> /\ slots = <<>>
    /\ (InitCall \/ InitHMap \/ InitHPair)

Finish(r) ==
    /\ pc' = IF r.ok THEN "done" ELSE "panicked"
    /\ out' = IF r.ok THEN r.val ELSE NoOut
    /\ err' = IF r.ok THEN 0 ELSE r.val
    /\ log' = r.log

\* <U as Call<T>>::call(&fn, arg)
Call ==
    /\ pc = "ready" /\ op = "call"
    /\ Finish(call(fn, arg, <<>>))
    /\ UNCHANGED <<op, kind, ty, left, right, arg, fn, slots>>

\* arg.hmap(&fn)
HMap ==
    /\ pc = "ready" /\ op = "hmap"
    /\ Finish(hmap(ty, arg, fn, <<>>))
    /\ UNCHANGED <<op, kind, ty, left, right, arg, fn, slots>>

\* let args = (left, right).hpair();
HPair ==
    /\ pc = "ready" /\ op = "hpair"
    /\ arg' = hpair(ty, <<left, right>>)
    /\ pc' = "paired"
    /\ UNCHANGED <<op, kind, ty, left, right, fn, out, err, log, slots>>

\* let q = args.hmap(&f);
ThenHMap ==
    /\ pc = "paired"
    /\ \E f \in BinaryHandles(kind) :
          /\ fn' = f
          /\ Finish(hmap(ty, arg, f, <<>>))
    /\ UNCHANGED <<op, kind, ty, left, right, arg, slots>>

Next == Call \/ HMap \/ HPair \/ ThenHMap

Spec == Init /\ [][Next]_vars

-----------------------------------------------------------------------------
(* A map whose leaves are resolved concurrently: any leaf not yet resolved *)
(* may be resolved next, every invocation going through the one shared     *)
(* handle; the join puts each result at the position of its leaf.          *)

RECURSIVE LeafSeq(_, _)
LeafSeq(t, c) ==
    IF t = <<>> THEN <<c>>
    ELSE IF c = <<>> THEN <<>>
    ELSE LeafSeq(Tail(t), Head(c)) \o LeafSeq(t, Tail(c))

RECURSIVE Rebuild(_, _, _, _)
Rebuild(t, c, vals, off) ==
    IF t = <<>> THEN vals[off + 1]
    ELSE [i \in 1..Len(c) |->
            Rebuild(Tail(t), c[i], vals, off + Len(LeafSeq(t, SubSeq(c, 1, i - 1))))]

ParTypes == { <<"Vec">>, <<"A2">>, <<"A3">>, <<"A4">>, <<"A2", "A2">> }

ParInit ==
    /\ op = "par" /\ kind = "u"
    /\ ty \in ParTypes
    /\ arg \in Values(ty, Scalars, MaxLen)
    /\ fn \in Handles
    /\ left = <<>> /\ right = <<>>
    /\ pc = "ready" /\ out = NoOut /\ err = 0 /\ log = <<>> /\ slots = <<>>

ParCall(i) ==
    /\ pc = "ready" /\ op = "par"
    /\ i \notin DOMAIN slots
    /\ LET r == call(fn, LeafSeq(ty, arg)[i], log)
       IN  /\ slots' = (i :> [ok |-> r.ok, val |-> r.val]) @@ slots
           /\ log' = r.log
    /\ UNCHANGED <<op, kind, ty, left, right, arg, fn, pc, out, err>>

ParJoin ==
    /\ pc = "ready" /\ op = "par"
    /\ DOMAIN slots = 1..Len(LeafSeq(ty, arg))
    /\ \/ /\ \A i \in DOMAIN slots : slots[i].ok
          /\ pc' = "done"
          /\ out' = Rebuild(ty, arg, [i \in DOMAIN slots |-> slots[i].val], 0)
          /\ err' = err
       \/ /\ \E i \in DOMAIN slots :
                /\ ~slots[i].ok
                /\ err' = slots[i].val
          /\ pc' = "panicked"
          /\ out' = out
    /\ UNCHANGED <<op, kind, ty, left, right, arg, fn, log, slots>>

ParNext == (\E i \in 1..Len(LeafSeq(ty, arg)) : ParCall(i)) \/ ParJoin

ParSpec == ParInit /\ [][ParNext]_vars

-----------------------------------------------------------------------------
(* Vocabulary of the properties *)

\* A map has run to completion on arg (directly, or after a pairing).
Mapped == pc = "done" /\ op \in {"hmap", "hpair"}
\* A pairing of (left, right) has produced arg.
Paired == pc = "paired"

\* The leaves the handle can be given in this run.
LeafArgs == DOMAIN fn
\* The leaves of the operands of a pairing.
OperandLeaves ==
    IF kind = "f64" THEN F64Vals ELSE IF kind = "ex" THEN 1..5 ELSE Scalars

\* b has the shape of a: the same number of elements at every level.
RECURSIVE SameShape(_, _, _)
SameShape(t, a, b) ==
    \/ t = <<>>
    \/ /\ Len(a) = Len(b)
       /\ Head(t) \in ArrayLayers => Len(b) = Arity(Head(t))
       /\ \A i \in 1..Len(a) : SameShape(Tail(t), a[i], b[i])

\* The leaves of c, outermost index first, each level index-ascending.
RECURSIVE Flatten(_, _, _)
RECURSIVE Leaves(_, _)
Flatten(t, c, i) ==
    IF i > Len(c) THEN <<>> ELSE Leaves(t, c[i]) \o Flatten(t, c, i + 1)
Leaves(t, c) == IF t = <<>> THEN <<c>> ELSE Flatten(Tail(t), c, 1)

\* The index paths of the leaves of c, and the leaf at a path.
RECURSIVE Paths(_, _)
Paths(t, c) ==
    IF t = <<>> THEN { <<>> }
    ELSE UNION { { <<i>> \o p : p \in Paths(Tail(t), c[i]) } : i \in 1..Len(c) }

RECURSIVE At(_, _)
At(c, p) == IF p = <<>> THEN c ELSE At(c[Head(p)], Tail(p))

\* The values of type t over the leaves S that have the shape of c.
RECURSIVE ShapeValues(_, _, _)
ShapeValues(t, c, S) ==
    IF t = <<>> THEN S
    ELSE IF c = <<>> THEN { <<>> }
    ELSE { <<h>> \o r : h \in ShapeValues(Tail(t), Head(c), S),
                        r \in ShapeValues(t, Tail(c), S) }

\* The containers of the shape of c that differ from c at one position other
\* than i.
Variants(t, c, i, S) ==
    UNION { { [c EXCEPT ![j] = v] : v \in ShapeValues(Tail(t), c[j], S) } :
            j \in (1..Len(c)) \ {i} }

FirstPanic(f, ls) ==
    IF \E k \in 1..Len(ls) : ~f[ls[k]].ok
    THEN CHOOSE k \in 1..Len(ls) :
            ~f[ls[k]].ok /\ \A j \in 1..(k - 1) : f[ls[j]].ok
    ELSE 0

-----------------------------------------------------------------------------
(* Properties *)

\* C1 (shape preservation): a completed hmap returns a container with the
\* arity or length of its argument at every nesting level.
C1_ShapePreserved == Mapped => SameShape(ty, arg, out)

C1_Witness ==
    /\ op = "hmap" /\ pc = "done" /\ ty = <<"Vec", "Vec">>
    /\ Len(arg) = 2 /\ arg[1] = <<>> /\ arg[2] = <<0, 1>>
    /\ out = << <<>>, <<fn[0].val, fn[1].val>> >>

\* C2 (positional correspondence): the element at position i of a completed
\* hmap is the hmap of the argument's element i, and stays the same when the
\* argument is changed at another position; the element i of an hpair is the
\* hpair of the operands' elements i, and stays the same when an operand is
\* changed at another position.
C2_MapPositional ==
    (Mapped /\ ty # <<>>) =>
        \A i \in 1..Len(out) :
            /\ LET r == hmap(Tail(ty), arg[i], fn, <<>>)
               IN  r.ok /\ r.val = out[i]
            /\ \A c2 \in Variants(ty, arg, i, LeafArgs) :
                  LET r2 == hmap(ty, c2, fn, <<>>)
                  IN  r2.ok => r2.val[i] = out[i]

C2_PairPositional ==
    (Paired /\ ty # <<>>) =>
        \A i \in 1..Len(arg) :
            /\ arg[i] = hpair(Tail(ty), <<left[i], right[i]>>)
            /\ \A l2 \in Variants(ty, left, i, OperandLeaves) :
                  hpair(ty, <<l2, right>>)[i] = arg[i]
            /\ \A r2 \in Variants(ty, right, i, OperandLeaves) :
                  hpair(ty, <<left, r2>>)[i] = arg[i]

C2_Positional == C2_MapPositional /\ C2_PairPositional

C2_Witness ==
    /\ op = "hmap" /\ pc = "done" /\ ty = <<"Vec">>
    /\ arg = <<0, 1, 1>> /\ fn[0] = Ok(1) /\ fn[1] = Ok(0)
    /\ out = <<1, 0, 0>>

\* C3 (length mismatch): the hpair of two Vecs has the length of the shorter
\* one, its element i pairs the operands' elements i, and the rest of the
\* longer operand is dropped without an error.
C3_VecTruncates ==
    (Paired /\ ty # <<>> /\ Head(ty) = "Vec") =>
        /\ Len(arg) = Min(Len(left), Len(right))
        /\ \A i \in 1..Min(Len(left), Len(right)) :
              /\ arg[i] = hpair(Tail(ty), <<left[i], right[i]>>)
              /\ ty = <<"Vec">> => arg[i] = <<left[i], right[i]>>
        /\ kind = "ex" => arg = << <<1, 4>>, <<2, 5>> >>

C3_Witness ==
    /\ Paired /\ kind = "ex" /\ left = <<1, 2, 3>> /\ right = <<4, 5>>
    /\ arg = << <<1, 4>>, <<2, 5>> >>

\* C4 (fixed arrays): the hpair of two arrays of arity N is an array of arity
\* N whose element i is the hpair of the operands' elements i; the hpair of
\* two scalars is the pair itself; so every leaf of the result is the pair of
\* the operands' leaves at the same path.
C4_ArrayPairs ==
    Paired =>
        /\ ty = <<>> => arg = <<left, right>>
        /\ (ty # <<>> /\ Head(ty) \in ArrayLayers) =>
              /\ Len(arg) = Arity(Head(ty))
              /\ \A i \in 1..Arity(Head(ty)) :
                    arg[i] = hpair(Tail(ty), <<left[i], right[i]>>)
        /\ (\A n \in 1..Len(ty) : ty[n] \in ArrayLayers) =>
              /\ SameShape(ty, left, arg)
              /\ \A p \in Paths(ty, left) : At(arg, p) = <<At(left, p), At(right, p)>>

C4_Witness ==
    /\ Paired /\ ty = <<"A6">>
    /\ left = <<0, 0, 0, 0, 1, 1>> /\ right = <<1, 0, 1, 0, 1, 0>>
    /\ arg = << <<0, 1>>, <<0, 0>>, <<0, 1>>, <<0, 0>>, <<1, 1>>, <<1, 0>> >>

\* C5 (scalar leaf call): call(h, x), and hmap of a leaf x with h, invoke h
\* once, on x, and return what h returns.
C5_LeafCall ==
    (pc # "ready" /\ (op = "call" \/ (op = "hmap" /\ ty = <<>>))) =>
        /\ log = <<arg>>
        /\ fn[arg].ok => (pc = "done" /\ out = fn[arg].val)

C5_Witness ==
    /\ op = "call" /\ pc = "done" /\ arg = 1 /\ fn[1] = Ok(0) /\ out = 0

\* C9 (failure propagation): when the handle panics on a leaf, hmap or call
\* ends with that panic's payload, returns no container, and the handle has
\* been invoked on the leaves up to that one, once each; and a completed run
\* met no panic.
C9_PanicPropagates ==
    /\ (pc = "panicked") =>
          LET ls == Leaves(ty, arg)
              k == FirstPanic(fn, ls)
          IN  /\ k > 0
              /\ err = fn[ls[k]].val
              /\ out = NoOut
              /\ log = SubSeq(ls, 1, k)
    /\ (pc = "done") => FirstPanic(fn, Leaves(ty, arg)) = 0

C9_Witness ==
    /\ op = "hmap" /\ pc = "panicked" /\ ty = <<"Vec">>
    /\ arg = <<0, 1, 0>> /\ fn[0] = Ok(1) /\ fn[1] = Panic(2)
    /\ err = 2 /\ log = <<0, 1>> /\ out = NoOut

\* C10 (order of application): a completed hmap has invoked the handle on
\* the leaves of its argument in index-ascending order, once each.
C10_AppliedInOrder == Mapped => log = Leaves(ty, arg)

C10_Witness ==
    /\ op = "hmap" /\ pc = "done" /\ ty = <<"Vec">>
    /\ arg = <<1, 0, 0>> /\ log = <<1, 0, 0>>

\* C6 (concurrency): a map whose leaves were resolved in any order through
\* the shared handle ends as the sequential index-ascending hmap does: with
\* the same container, or with a panic when the sequential hmap panics.
C6_AnyOrderSameResult ==
    (op = "par" /\ pc # "ready") =>
        LET r == hmap(ty, arg, fn, <<>>)
        IN  /\ pc = "done" => (r.ok /\ out = r.val)
            /\ pc = "panicked" => ~r.ok

\* Three leaves resolved in another order than the sequential one.
C6_Witness ==
    /\ op = "par" /\ pc = "done" /\ ty = <<"Vec">>
    /\ arg = <<0, 1, 1>> /\ log = <<1, 1, 0>>
    /\ fn[0] = Ok(1) /\ fn[1] = Ok(0)
    /\ out = <<1, 0, 0>>

\* C7 (pairwise-then-map): ([0.7, 0.9], [0.9, 0.1]).hpair() is
\* [(0.7, 0.9), (0.9, 0.1)], and its hmap with in_between is [0.8, 0.0].
C7_InBetween ==
    (kind = "f64" /\ left = <<F64_07, F64_09>> /\ right = <<F64_09, F64_01>>) =>
        /\ pc # "ready" => arg = << <<F64_07, F64_09>>, <<F64_09, F64_01>> >>
        /\ pc \notin {"ready", "paired"} => (pc = "done" /\ out = <<F64_08, F64Zero>>)

C7_Witness ==
    /\ kind = "f64" /\ left = <<F64_07, F64_09>> /\ right = <<F64_09, F64_01>>
    /\ arg = << <<F64_07, F64_09>>, <<F64_09, F64_01>> >>
    /\ pc = "done" /\ out = <<F64_08, F64Zero>>

====
